---- MODULE Spec2Model ----
(***************************************************************************)
(* A model of gitlab2github (src/gitlab2github/gitlab2github.py): the      *)
(* retry / slow_down decorators, the upload-link rewrite, label            *)
(* reconciliation (move_labels), issue and comment migration (move_issues, *)
(* move_comments) and the top-level sequencing (github2gitlab).            *)
(*                                                                         *)
(* Strings are sequences of one-character strings, so that str.lower and   *)
(* the uploads regular expression are computed character by character.     *)
(***************************************************************************)
EXTENDS Integers, Sequences, FiniteSets, TLC

VARIABLES
    pc,         \* position of the single thread in the program
    step,       \* github2gitlab: how many of its phases have been started
    gl_labels,  \* move_labels: the source labels (a Python set)
    gh_labels,  \* move_labels: the destination label snapshot (names)
    todo,       \* move_labels: source labels the for loop has not reached yet
    gl_label,   \* move_labels: the loop's current source label
    gl_listing, \* move_issues: the source issue listing, in listing order
    gl_issues,  \* move_issues: sorted(listing, key=iid)
    idx,        \* move_issues: index of the loop's current issue in gl_issues
    gl_issue,   \* move_issues: the loop's current source issue
    gh_issue,   \* move_issues: number of the destination issue just created
    notes,      \* move_comments: the notes the listing iterator has yielded
    migrated,   \* the source issues the loop has dealt with, in order, each with
                \* the number of its destination issue (0: skipped)
    writes,     \* the successful destination writes of the running move_labels
                \* or of the running pass of move_issues' loop, in order
    times,      \* retry: decorator argument
    delay,      \* retry: decorator argument
    forever,    \* retry: decorator argument
    attempt,    \* wrapper_retry: local
    timeout,    \* wrapper_retry: local
    wpc,        \* wrapper_retry: "idle", "running", "returned" or "raised"
    cur,        \* the wrapped call in progress (operation and arguments)
    plan,       \* the operation's outcomes: attempts 1..plan raise, the next succeeds
    result,     \* what wrapper_retry returned or raised
    trace,      \* sleeps and invocations of the wrapped call in progress
    text,       \* fix_upload_links: the body text
    url,        \* fix_upload_links: the project base URL
    out         \* fix_upload_links: the results of successive passes

vars == <<pc, step, gl_labels, gh_labels, todo, gl_label, gl_listing, gl_issues, idx,
          gl_issue, gh_issue, notes, migrated, writes, times, delay, forever,
          attempt, timeout, wpc, cur, plan, result, trace, text, url, out>>

labelVars == <<gl_labels, gh_labels, todo, gl_label>>
issueVars == <<gl_listing, gl_issues, idx, gl_issue, gh_issue, notes, migrated>>
runVars == <<pc, step, labelVars, issueVars>>
cfgVars == <<times, delay, forever>>
linkVars == <<text, url, out>>
callVars == <<attempt, timeout, wpc, cur, plan, result, trace>>

----------------------------------------------------------------------------
(* Bounds of the model. *)

MaxTimes == 3
MaxFails == 2
MaxLabels == 2
MaxIssues == 2
MaxNotes == 2
MaxSegs == 3

(* Constants of the program. *)

RATE == 5
DELAY == 1200
BACKOFF_STEP == 300
DEFAULT_TIMES == 1
DESC_LIMIT == 100

----------------------------------------------------------------------------
(* Strings. *)

Range(s) == {s[i] : i \in DOMAIN s}

LowerChar(c) ==
    CASE c = "B" -> "b"
      [] c = "F" -> "f"
      [] c = "G" -> "g"
      [] c = "L" -> "l"
      [] OTHER -> c

Lower(s) == [i \in DOMAIN s |-> LowerChar(s[i])]

MARKER == <<"g", "i", "t", "l", "a", "b">>

----------------------------------------------------------------------------
(* The destination.  A successful write appends one entry to writes; a      *)
(* created issue gets the next free issue number.                           *)

\* The destination numbers its issues in the order of their creation.
NextNumber(m) == Cardinality({i \in DOMAIN m : m[i].number > 0}) + 1

\* The entry a successful invocation of the wrapped operation c leaves: of
\* a created label the record keeps the name.
Effect(c, m) ==
    CASE c.op = "create_issue" ->
             [op |-> c.op, iid |-> c.iid, labels |-> c.labels, number |-> NextNumber(m)]
      [] c.op = "create_label" ->
             [op |-> c.op, name |-> c.name, src |-> c.src]
      [] OTHER -> c

\* The value the wrapped operation returns: an issue's number, 0 for None.
Value(c, m) == IF c.op = "create_issue" THEN NextNumber(m) ELSE 0

----------------------------------------------------------------------------
(* slow_down and retry.                                                     *)

Event(e, n) == [ev |-> e, n |-> n]

\* Variant: the delay is taken before the first invocation only.
wrapper_slow_down_first(tr) ==
    IF tr = <<>> THEN Append(tr, Event("pre_sleep", RATE)) ELSE tr

\* wrapper_slow_down: time.sleep(rate), then the call of func.
wrapper_slow_down(tr) == Append(tr, Event("pre_sleep", RATE))

\* while forever or attempt < times
LoopCond(f, a, t) == f \/ a < t

\* Variant: the attempt budget is enforced in unbounded mode too.
RaiseCond_any(f, a, t) == a >= t

\* if not forever and attempt == times: raise error
RaiseCond(f, a, t) == ~f /\ a = t

NoResult == [kind |-> "pending", attempt |-> 0, value |-> 0]

NoCall == [op |-> "none"]

\* wrapper_retry has returned or raised.
Terminated == wpc \in {"returned", "raised"}

\* The caller takes the outcome; the wrapper's locals are gone.
Release ==
    /\ wpc' = "idle"
    /\ cur' = NoCall
    /\ attempt' = 0
    /\ timeout' = 0
    /\ plan' = 0
    /\ result' = NoResult
    /\ trace' = <<>>

\* Variant: the backoff doubles after every failed attempt.
Escalate_double(t) == 2 * t

\* timeout += 5 * 60
Escalate(t) == t + BACKOFF_STEP

\* The call of a decorated function: attempt = 1, timeout = delay.  The
\* operation's outcomes are fixed when the call starts.
Call(c) ==
    /\ wpc = "idle"
    /\ cur' = c
    /\ attempt' = 1
    /\ timeout' = delay
    /\ wpc' = "running"
    /\ result' = NoResult
    /\ trace' = <<>>
    /\ \E p \in 0..MaxFails : plan' = p

\* One pass of the loop whose invocation of func returns.
wrapper_retry_return ==
    /\ wpc = "running"
    /\ LoopCond(forever, attempt, times)
    /\ attempt > plan
    /\ trace' = Append(wrapper_slow_down(trace), Event("call_ok", attempt))
    /\ writes' = Append(writes, Effect(cur, migrated))
    /\ result' = [kind |-> "return", attempt |-> attempt, value |-> Value(cur, migrated)]
    /\ wpc' = "returned"
    /\ UNCHANGED <<attempt, timeout, cur, plan>>
    /\ UNCHANGED <<runVars, cfgVars, linkVars>>

\* One pass of the loop whose invocation of func raises: the except block.
wrapper_retry_except ==
    /\ wpc = "running"
    /\ LoopCond(forever, attempt, times)
    /\ attempt <= plan
    /\ attempt' = attempt + 1
    /\ trace' = Append(Append(wrapper_slow_down(trace), Event("call_err", attempt)),
                       Event("backoff", timeout))
    /\ timeout' = Escalate(timeout)
    /\ IF RaiseCond(forever, attempt', times)
       THEN /\ wpc' = "raised"
            /\ result' = [kind |-> "raise", attempt |-> attempt, value |-> 0]
       ELSE UNCHANGED <<wpc, result>>
    /\ UNCHANGED <<cur, plan, writes>>
    /\ UNCHANGED <<runVars, cfgVars, linkVars>>

\* The loop condition is false: wrapper_retry ends without a return statement.
wrapper_retry_exit ==
    /\ wpc = "running"
    /\ ~LoopCond(forever, attempt, times)
    /\ wpc' = "returned"
    /\ result' = [kind |-> "exit", attempt |-> 0, value |-> 0]
    /\ UNCHANGED <<attempt, timeout, cur, plan, trace, writes>>
    /\ UNCHANGED <<runVars, cfgVars, linkVars>>

----------------------------------------------------------------------------
(* A single call of a function decorated with @retry(times, delay, forever) *)
(* and @slow_down(rate=5), for every configuration within the bounds.       *)

NoLabel == [name |-> <<>>]

Empty == <<>>

NoIssue == [iid |-> 0]

\* Nothing has run yet.
InitIdle ==
    /\ step = 0
    /\ gl_labels = {} /\ gh_labels = {} /\ todo = {} /\ gl_label = NoLabel
    /\ gl_listing = Empty /\ gl_issues = Empty /\ idx = 0
    /\ gl_issue = NoIssue /\ gh_issue = 0
    /\ notes = Empty /\ migrated = Empty
    /\ writes = Empty
    /\ attempt = 0 /\ timeout = 0 /\ wpc = "idle"
    /\ cur = NoCall /\ plan = 0
    /\ result = NoResult /\ trace = Empty

InitCommon ==
    /\ InitIdle
    /\ text = Empty /\ url = Empty /\ out = Empty

InitRetry ==
    /\ InitCommon
    /\ pc = "decorated"
    /\ times \in 0..MaxTimes
    /\ delay \in {0, DELAY}
    /\ forever \in BOOLEAN

call_decorated ==
    /\ pc = "decorated"
    /\ Call([op |-> "func"])
    /\ pc' = "called"
    /\ UNCHANGED <<step, labelVars, issueVars, writes, cfgVars, linkVars>>

NextRetry ==
    \/ call_decorated
    \/ wrapper_retry_return
    \/ wrapper_retry_except
    \/ wrapper_retry_exit

SpecRetry == InitRetry /\ [][NextRetry]_vars

----------------------------------------------------------------------------
(* The source and destination projects the run reads.                       *)

BUG == <<"B", "u", "g">>
FEATURE == <<"F", "e", "a", "t", "u", "r", "e">>

GITLAB == <<"G", "i", "t", "L", "a", "b">>

\* Names of source labels and of destination labels.
SrcNames == {BUG, Lower(BUG), FEATURE, GITLAB}
DstNames == {BUG, Lower(BUG), MARKER, GITLAB}

SrcLabelSets == {{[name |-> n] : n \in ns} :
                    ns \in {x \in SUBSET SrcNames : Cardinality(x) <= MaxLabels}}
DstLabelSets == {x \in SUBSET DstNames : Cardinality(x) <= MaxLabels}

\* A description of n characters.
Chars(n) == [i \in 1..n |-> "d"]

\* What the loop reads of a source label besides its name: a color in hex
\* notation and a description, which is None (<<>>) or a string (<<s>>) that
\* may be empty, short, or DESC_LIMIT characters long and longer.
LabelAttrs == [color : {<<"#", "F", "0", "0">>, <<"#", "4", "2", "8", "B", "C", "A">>},
               description : {<<>>} \cup {<<Chars(n)>> : n \in {0, 1, DESC_LIMIT, DESC_LIMIT + 1}}]

\* A listing holds every issue number at most once, in any order.
Listings == {l \in UNION {[1..n -> [iid : 1..MaxIssues]] : n \in 0..MaxIssues} :
                \A i, j \in DOMAIN l : i # j => l[i] # l[j]}

\* What the loop reads of a source issue besides its number.
IssueAttrs == [confidential : BOOLEAN, state : {"opened", "closed"},
               labels : {<<>>, <<BUG>>}]

\* The flags of a source note.
NoteKinds == [confidential : BOOLEAN, system : BOOLEAN]

----------------------------------------------------------------------------
(* move_labels.                                                              *)

\* Variant: an error of a wrapped call is caught and the run goes on.
Propagates_caught(w) == FALSE

\* No call site has a try/except: what the wrapper raises leaves move_labels
\* and move_issues, and github2gitlab.
Propagates(w) == w = "raised"

EXCLUDED == {}

MARKER_COLOR == <<"F", "C", "6", "D", "2", "7">>

\* "For issues moved from GitLab"
MARKER_DESCRIPTION ==
    <<"F", "o", "r", " ", "i", "s", "s", "u", "e", "s", " ", "m", "o", "v", "e", "d",
      " ", "f", "r", "o", "m", " ", "G", "i", "t", "L", "a", "b">>

\* color.replace("#", "")
Color(c) == SelectSeq(c, LAMBDA x : x # "#")

\* Variant: the description is passed whole.
Truncated_whole(d) == d

\* description[:100]
Truncated(d) == SubSeq(d, 1, IF Len(d) < DESC_LIMIT THEN Len(d) ELSE DESC_LIMIT)

\* gl_label.description[:100] if gl_label.description else ""
Description(d) == IF d # <<>> /\ d[1] # <<>> THEN Truncated(d[1]) ELSE <<>>

\* gl_label.name.lower() not in (gh_label.name for gh_label in gh_labels)
Missing(l, gh) == Lower(l.name) \notin gh

\* Variant: the snapshot is searched ignoring letter case.
MarkerMissing_nocase(gh) == \A g \in gh : Lower(g) # MARKER

\* "gitlab" not in (gh_label.name for gh_label in gh_labels)
MarkerMissing(gh) == MARKER \notin gh

move_labels_start ==
    /\ pc = "move_labels"
    /\ \E gl \in SrcLabelSets, gh \in DstLabelSets :
          /\ gl_labels' = gl
          /\ gh_labels' = gh
          /\ todo' = gl
    /\ pc' = "labels_loop"
    /\ UNCHANGED <<step, gl_label, issueVars, writes, cfgVars, callVars, linkVars>>

\* One pass of the for loop, over any label not yet visited (a set has no
\* order).
move_labels_next ==
    /\ pc = "labels_loop"
    /\ \E l \in todo, a \in LabelAttrs :
          /\ todo' = todo \ {l}
          /\ gl_label' = [name |-> l.name, color |-> a.color,
                          description |-> a.description]
          /\ IF Missing(l, gh_labels) /\ l.name \notin EXCLUDED
             THEN /\ Call([op |-> "create_label", name |-> Lower(l.name),
                           color |-> Color(a.color),
                           description |-> Description(a.description),
                           src |-> l.name])
                  /\ pc' = "label_call"
             ELSE /\ pc' = pc
                  /\ UNCHANGED callVars
    /\ UNCHANGED <<step, gl_labels, gh_labels, issueVars, writes, cfgVars, linkVars>>

label_created ==
    /\ pc = "label_call"
    /\ Terminated
    /\ pc' = IF Propagates(wpc) THEN "aborted" ELSE "labels_loop"
    /\ Release
    /\ UNCHANGED <<step, labelVars, issueVars, writes, cfgVars, linkVars>>

\* After the loop: the marker label when the snapshot lacks it.
move_labels_marker ==
    /\ pc = "labels_loop"
    /\ todo = {}
    /\ IF MarkerMissing(gh_labels)
       THEN /\ Call([op |-> "create_label", name |-> MARKER, color |-> MARKER_COLOR,
                     description |-> MARKER_DESCRIPTION, src |-> <<>>])
            /\ pc' = "marker_call"
       ELSE /\ pc' = "labels_end"
            /\ UNCHANGED callVars
    /\ UNCHANGED <<step, labelVars, issueVars, writes, cfgVars, linkVars>>

marker_created ==
    /\ pc = "marker_call"
    /\ Terminated
    /\ pc' = IF Propagates(wpc) THEN "aborted" ELSE "labels_end"
    /\ Release
    /\ UNCHANGED <<step, labelVars, issueVars, writes, cfgVars, linkVars>>

\* move_labels returns: its locals, and the record of its writes, are gone.
move_labels_return ==
    /\ pc = "labels_end"
    /\ pc' = "main"
    /\ gl_labels' = {}
    /\ gh_labels' = {}
    /\ gl_label' = NoLabel
    /\ writes' = <<>>
    /\ UNCHANGED <<step, todo, issueVars, cfgVars, callVars, linkVars>>

----------------------------------------------------------------------------
(* move_issues and move_comments.                                            *)

\* sorted(..., key=operator.attrgetter('iid')): a stable insertion sort.
RECURSIVE Insert(_, _)
Insert(x, l) ==
    IF l = <<>> THEN <<x>>
    ELSE IF x.iid < Head(l).iid THEN <<x>> \o l
         ELSE <<Head(l)>> \o Insert(x, Tail(l))

RECURSIVE SortedRev(_)
SortedRev(l) ==
    IF l = <<>> THEN <<>>
    ELSE Insert(l[Len(l)], SortedRev(SubSeq(l, 1, Len(l) - 1)))

\* Variant: the listing order is kept.
sorted_identity(l) == l

sorted(l) == SortedRev(l)

\* Variant: no issue is skipped.
SkipIssue_never(i) == FALSE

\* if gl_issue.confidential: continue
SkipIssue(i) == i.confidential

\* if note.confidential: continue
SkipNote(n) == n.confidential

\* Variant: system notes are moved as well.
MoveNote_always(n) == TRUE

\* if not note.system:
MoveNote(n) == ~n.system

\* Variant: the label names are passed as they are.
IssueLabels_raw(i) == Append(i.labels, MARKER)

\* labels=[*[gl_label.lower() for gl_label in gl_issue.labels], 'gitlab']
IssueLabels(i) == Append([k \in DOMAIN i.labels |-> Lower(i.labels[k])], MARKER)

move_issues_start ==
    /\ pc = "move_issues"
    /\ \E l \in Listings :
          /\ gl_listing' = l
          /\ gl_issues' = sorted(l)
    /\ idx' = 1
    /\ pc' = "issues_loop"
    /\ UNCHANGED <<step, labelVars, gl_issue, gh_issue, notes, migrated>>
    /\ UNCHANGED <<writes, cfgVars, callVars, linkVars>>

\* One pass of the for loop up to the call of create_github_issue.  The
\* record of the previous pass's writes is dropped; the issue's attributes
\* are fixed when the loop reaches it.
move_issues_next ==
    /\ pc = "issues_loop"
    /\ idx <= Len(gl_issues)
    /\ \E a \in IssueAttrs :
          LET i == [iid |-> gl_issues[idx].iid, confidential |-> a.confidential,
                    state |-> a.state, labels |-> a.labels]
          IN  /\ gl_issue' = i
              /\ IF SkipIssue(i)
                 THEN /\ idx' = idx + 1
                      /\ pc' = pc
                      /\ migrated' = Append(migrated, [iid |-> i.iid, number |-> 0,
                                                        confidential |-> i.confidential])
                      /\ UNCHANGED callVars
                 ELSE /\ Call([op |-> "create_issue", iid |-> i.iid,
                               labels |-> IssueLabels(i)])
                      /\ pc' = "issue_call"
                      /\ UNCHANGED <<idx, migrated>>
    /\ writes' = <<>>
    /\ UNCHANGED <<step, labelVars, gl_listing, gl_issues, gh_issue, notes>>
    /\ UNCHANGED <<cfgVars, linkVars>>

\* gh_issue = create_github_issue(...); gh_issue.number
issue_created ==
    /\ pc = "issue_call"
    /\ Terminated
    /\ IF Propagates(wpc) \/ result.kind # "return"
       THEN /\ pc' = "aborted"
            /\ UNCHANGED <<gh_issue, migrated>>
       ELSE /\ pc' = "issue_made"
            /\ gh_issue' = result.value
            /\ migrated' = Append(migrated, [iid |-> gl_issue.iid, number |-> result.value,
                                              confidential |-> gl_issue.confidential])
    /\ Release
    /\ UNCHANGED <<step, labelVars, gl_listing, gl_issues, idx, gl_issue, notes>>
    /\ UNCHANGED <<writes, cfgVars, linkVars>>

\* Variant: every created issue is closed.
ShouldClose_always(i) == TRUE

\* gl_issue.state == 'closed'
ShouldClose(i) == i.state = "closed"

\* if gl_issue.state == 'closed': close_github_issue(gh_issue)
move_issues_close ==
    /\ pc = "issue_made"
    /\ IF ShouldClose(gl_issue)
       THEN /\ Call([op |-> "close_issue", number |-> gh_issue])
            /\ pc' = "close_call"
       ELSE /\ pc' = "move_comments"
            /\ UNCHANGED callVars
    /\ UNCHANGED <<step, labelVars, issueVars, writes, cfgVars, linkVars>>

issue_closed ==
    /\ pc = "close_call"
    /\ Terminated
    /\ pc' = IF Propagates(wpc) THEN "aborted" ELSE "move_comments"
    /\ Release
    /\ UNCHANGED <<step, labelVars, issueVars, writes, cfgVars, linkVars>>

\* One pass of move_comments' loop: the notes iterator yields one more note.
move_comments_next ==
    /\ pc = "move_comments"
    /\ Len(notes) < MaxNotes
    /\ \E k \in NoteKinds :
          LET note == [id |-> Len(notes) + 1, confidential |-> k.confidential,
                       system |-> k.system]
          IN  /\ notes' = Append(notes, note)
              /\ IF ~SkipNote(note) /\ MoveNote(note)
                 THEN /\ Call([op |-> "create_comment", number |-> gh_issue,
                               iid |-> gl_issue.iid, note |-> note])
                      /\ pc' = "comment_call"
                 ELSE /\ pc' = pc
                      /\ UNCHANGED callVars
    /\ UNCHANGED <<step, labelVars, gl_listing, gl_issues, idx, gl_issue, gh_issue, migrated>>
    /\ UNCHANGED <<writes, cfgVars, linkVars>>

comment_created ==
    /\ pc = "comment_call"
    /\ Terminated
    /\ pc' = IF Propagates(wpc) THEN "aborted" ELSE "move_comments"
    /\ Release
    /\ UNCHANGED <<step, labelVars, issueVars, writes, cfgVars, linkVars>>

\* The notes iterator is exhausted: move_comments returns and the for loop
\* of move_issues goes on to the next issue.
move_comments_return ==
    /\ pc = "move_comments"
    /\ notes' = <<>>
    /\ idx' = idx + 1
    /\ pc' = "issues_loop"
    /\ UNCHANGED <<step, labelVars, gl_listing, gl_issues, gl_issue, gh_issue, migrated>>
    /\ UNCHANGED <<writes, cfgVars, callVars, linkVars>>

\* The loop is over: move_issues returns, its locals are gone.
move_issues_return ==
    /\ pc = "issues_loop"
    /\ idx > Len(gl_issues)
    /\ pc' = "main"
    /\ gl_listing' = <<>>
    /\ gl_issues' = <<>>
    /\ idx' = 0
    /\ gl_issue' = NoIssue
    /\ gh_issue' = 0
    /\ writes' = <<>>
    /\ UNCHANGED <<step, labelVars, notes, migrated>>
    /\ UNCHANGED <<cfgVars, callVars, linkVars>>

----------------------------------------------------------------------------
(* github2gitlab: move_labels, then move_issues.                             *)

\* Variant: the two phases in the other order.
PHASES_swapped == <<"move_issues", "move_labels">>

PHASES == <<"move_labels", "move_issues">>

github2gitlab ==
    /\ pc = "main"
    /\ IF step < Len(PHASES)
       THEN /\ step' = step + 1
            /\ pc' = PHASES[step + 1]
       ELSE /\ step' = step
            /\ pc' = "done"
    /\ UNCHANGED <<labelVars, issueVars, writes, cfgVars, callVars, linkVars>>

\* The four destination writes are decorated with
\* @retry(delay=60 * 20, forever=True) and @slow_down(rate=5).
Init ==
    /\ InitCommon
    /\ pc = "main"
    /\ times = DEFAULT_TIMES
    /\ delay = DELAY
    /\ forever = TRUE

Next ==
    \/ github2gitlab
    \/ move_labels_start
    \/ move_labels_next
    \/ label_created
    \/ move_labels_marker
    \/ marker_created
    \/ move_labels_return
    \/ move_issues_start
    \/ move_issues_next
    \/ issue_created
    \/ move_issues_close
    \/ issue_closed
    \/ move_comments_next
    \/ comment_created
    \/ move_comments_return
    \/ move_issues_return
    \/ wrapper_retry_return
    \/ wrapper_retry_except

Spec == Init /\ [][Next]_vars

\* A read of the source project raises: the listing of the labels or of the
\* issues, an issue's participants, or the notes iterator.
source_raises ==
    /\ \/ pc \in {"move_labels", "move_issues", "move_comments"}
       \/ pc = "issues_loop" /\ idx <= Len(gl_issues)
    /\ pc' = "aborted"
    /\ UNCHANGED <<step, labelVars, issueVars, writes, cfgVars, callVars, linkVars>>

\* The run with source reads that may fail and with the destination writes
\* decorated as they are or in bounded mode, @retry(times=N, delay=60 * 20).
InitErrors ==
    /\ InitCommon
    /\ pc = "main"
    /\ delay = DELAY
    /\ \/ forever = TRUE /\ times = DEFAULT_TIMES
       \/ forever = FALSE /\ times \in 1..MaxTimes

NextErrors ==
    \/ Next
    \/ wrapper_retry_exit
    \/ source_raises

SpecErrors == InitErrors /\ [][NextErrors]_vars

\* The thread keeps running, and no operation fails more than MaxFails times.
FairSpec == Spec /\ WF_vars(Next)

----------------------------------------------------------------------------
(* Claims about the retry wrapper (SpecRetry).                               *)

CountEv(tr, evs) == Cardinality({i \in DOMAIN tr : tr[i].ev \in evs})

Backoffs(tr) == CountEv(tr, {"backoff"})

Invocations(tr) == CountEv(tr, {"call_ok", "call_err"})

\* C1: in bounded mode with times = N >= 1, an operation that fails on
\* attempts 1..k-1 and succeeds on attempt k <= N makes the wrapper return
\* the result of attempt k after exactly k-1 backoff sleeps.
C1_ReturnsFirstSuccess ==
    (Terminated /\ cur.op = "func" /\ ~forever /\ times >= 1 /\ plan + 1 <= times)
        => /\ wpc = "returned"
           /\ result.kind = "return"
           /\ result.attempt = plan + 1
           /\ Backoffs(trace) = plan

\* C2: in bounded mode with times = N >= 1, when every attempt fails the
\* operation is invoked exactly N times and the wrapper raises the error of
\* the N-th attempt.
C2_ReraisesLastError ==
    (Terminated /\ cur.op = "func" /\ ~forever /\ times >= 1 /\ plan >= times)
        => /\ Invocations(trace) = times
           /\ wpc = "raised"
           /\ result.kind = "raise"
           /\ result.attempt = times

----------------------------------------------------------------------------
(* fix_upload_links: uploads_pattern.sub(url + match, text), with           *)
(* uploads_pattern = "(/uploads/[^\s\)]+)".                                  *)

UPLOADS == <<"/", "u", "p", "l", "o", "a", "d", "s", "/">>

\* [\s\)]: the characters that end a match.
IsStop(c) == c \in {" ", ")"}

StartsAt(t, i, p) ==
    /\ i + Len(p) - 1 <= Len(t)
    /\ SubSeq(t, i, i + Len(p) - 1) = p

\* The last index of the longest run of non-stop characters from index j on
\* (j - 1 when there is none): the greedy [^\s\)]+.
RECURSIVE RunEnd(_, _)
RunEnd(t, j) ==
    IF j <= Len(t) /\ ~IsStop(t[j]) THEN RunEnd(t, j + 1) ELSE j - 1

\* The end of the match that starts at index i, 0 when none starts there.
MatchEnd(t, i) ==
    IF StartsAt(t, i, UPLOADS) /\ RunEnd(t, i + Len(UPLOADS)) >= i + Len(UPLOADS)
    THEN RunEnd(t, i + Len(UPLOADS))
    ELSE 0

\* re.sub: leftmost non-overlapping matches, each replaced by url + match.
RECURSIVE SubFrom(_, _, _)
SubFrom(t, u, i) ==
    IF i > Len(t) THEN <<>>
    ELSE IF MatchEnd(t, i) > 0
         THEN u \o SubSeq(t, i, MatchEnd(t, i)) \o SubFrom(t, u, MatchEnd(t, i) + 1)
         ELSE <<t[i]>> \o SubFrom(t, u, i + 1)

fix_upload_links(t, u) == SubFrom(t, u, 1)

\* Body texts: up to MaxSegs pieces, each an uploads prefix, a path
\* character, a blank or a closing parenthesis.
Segments == {UPLOADS, <<"f">>, <<" ">>, <<")">>}

RECURSIVE Concat(_)
Concat(ss) == IF ss = <<>> THEN <<>> ELSE Head(ss) \o Concat(Tail(ss))

Texts == {Concat(ss) : ss \in UNION {[1..n -> Segments] : n \in 0..MaxSegs}}

\* Project base URLs: none, a plain one, and one of a project whose path
\* itself contains /uploads/.
Urls == {<<>>, <<"h">>, <<"h">> \o UPLOADS \o <<"p">>}

InitLinks ==
    /\ InitIdle
    /\ pc = "links"
    /\ times = DEFAULT_TIMES /\ delay = 0 /\ forever = FALSE
    /\ text \in Texts
    /\ url \in Urls
    /\ out = Empty

\* One more pass of the link rewrite over the latest text.
rewrite_links ==
    /\ pc = "links"
    /\ Len(out) < 2
    /\ out' = Append(out, fix_upload_links(IF out = <<>> THEN text ELSE out[Len(out)], url))
    /\ UNCHANGED <<text, url, runVars, cfgVars, callVars, writes>>

NextLinks == rewrite_links

SpecLinks == InitLinks /\ [][NextLinks]_vars

\* C3: the link rewrite is idempotent: a second pass over the result of a
\* first pass changes nothing.
C3_Idempotent == Len(out) = 2 => out[2] = out[1]

----------------------------------------------------------------------------
(* Claims about the run (Spec, FairSpec).                                    *)

WriteOps == {"create_label", "create_issue", "close_issue", "create_comment"}

\* The call in progress and the recorded writes.
Issued == {writes[k] : k \in DOMAIN writes} \cup (IF cur.op \in WriteOps THEN {cur} ELSE {})

IssuedOp(o) == {e \in Issued : e.op = o}

InLabelLoop == pc \in {"labels_loop", "label_call", "marker_call", "labels_end"}

\* A create-label call has been issued for the source label l.
LabelCalled(l) == \E e \in IssuedOp("create_label") : e.src = l.name

\* C4: label reconciliation compares names ignoring letter case: a source
\* label the loop has dealt with got a create-label call exactly when no
\* label of the destination snapshot has the same name up to letter case.
C4_CaseInsensitive ==
    InLabelLoop =>
        \A l \in gl_labels \ todo :
            LabelCalled(l) <=> ~(\E g \in gh_labels : Lower(g) = Lower(l.name))

Created == {i \in DOMAIN migrated : migrated[i].number > 0}

\* C5: issues are created in ascending source sequence number whatever the
\* listing order: of two created issues, the one with the smaller iid was
\* created first (it holds the smaller destination number).
C5_AscendingOrder ==
    \A i, j \in Created :
        migrated[i].iid < migrated[j].iid
            => i < j /\ migrated[i].number < migrated[j].number

\* Two issues listed in descending order have both been created.
C5_Witness ==
    /\ Cardinality(Created) >= 2
    /\ \E i, j \in DOMAIN gl_listing : i < j /\ gl_listing[i].iid > gl_listing[j].iid

\* C6: nothing is written for a confidential source issue, and no comment
\* is created from a confidential or system-generated note.
C6_ConfidentialFilter ==
    /\ \A i \in Created : ~migrated[i].confidential
    /\ \A e \in Issued :
          e.op \in {"create_issue", "close_issue", "create_comment"}
              => /\ gl_issue.iid # 0
                 /\ ~gl_issue.confidential
    /\ \A e \in IssuedOp("create_comment") :
          ~e.note.confidential /\ ~e.note.system

\* A confidential issue was skipped, and of the notes of a later issue one
\* was left out and one was moved.
C6_Witness ==
    /\ \E i \in DOMAIN migrated : migrated[i].confidential /\ migrated[i].number = 0
    /\ \E k \in DOMAIN writes : writes[k].op = "create_comment"
    /\ \E k \in DOMAIN notes : notes[k].confidential \/ notes[k].system

\* C7: the labels of every created issue are the lower-cased names of its
\* source issue's labels together with the marker label.
C7_IssueLabels ==
    \A e \in IssuedOp("create_issue") :
        /\ e.iid = gl_issue.iid
        /\ Range(e.labels) = {Lower(n) : n \in Range(gl_issue.labels)} \cup {MARKER}

\* An issue with a label in upper case has been created.
C7_Witness ==
    /\ \E k \in DOMAIN writes : writes[k].op = "create_issue"
    /\ gl_issue.labels = <<BUG>>

IsInvocation(e) == e.ev \in {"call_ok", "call_err"}

\* C8: every invocation of a destination write, retries included, comes
\* right after a 5-second delay.
C8_DelayBeforeEveryCall ==
    cur.op \in WriteOps =>
        \A i \in DOMAIN trace :
            IsInvocation(trace[i])
                => i > 1 /\ trace[i - 1] = [ev |-> "pre_sleep", n |-> 5]

\* A destination write has been invoked again after a failure.
C8_Witness ==
    /\ cur.op \in WriteOps
    /\ Invocations(trace) >= 2
    /\ wpc = "returned"

\* C9: in unbounded mode the wrapper never raises and returns only from a
\* successful invocation; a call in progress is left only by such a return
\* (a failed attempt leads to another attempt of the same call, with no
\* write in between); and when every operation succeeds after finitely many
\* failures the run ends.
C9_UnboundedRetry ==
    /\ [](forever => /\ wpc # "raised"
                     /\ pc # "aborted"
                     /\ (wpc = "returned" => result.kind = "return"))
    /\ [][(forever /\ wpc = "running")
            => \/ wpc' = "running" /\ cur' = cur /\ writes' = writes
                  /\ attempt' = attempt + 1
               \/ wpc' = "returned" /\ result'.kind = "return"]_vars
    /\ <>(pc = "done")

\* A destination write has returned after at least one failed attempt.
C9_Witness ==
    /\ forever
    /\ cur.op \in WriteOps
    /\ wpc = "returned"
    /\ result.kind = "return"
    /\ result.attempt >= 2
    /\ Backoffs(trace) = result.attempt - 1

InIssues == pc \in {"issues_loop", "issue_call", "issue_made", "close_call",
                    "move_comments", "comment_call"}

\* C10: every create-label call comes before the first create-issue call:
\* while a create-label call is issued no issue has been dealt with, and
\* the issue migration runs only after move_labels has returned.
C10_LabelsBeforeIssues ==
    /\ (IssuedOp("create_label") # {} \/ InLabelLoop)
          => /\ Created = {}
             /\ IssuedOp("create_issue") = {}
    /\ (InIssues \/ Created # {})
          => /\ step = 2
             /\ todo = {}
             /\ IssuedOp("create_label") = {}

\* move_labels has created a source label and the marker label.
C10_Witness ==
    /\ pc = "labels_end"
    /\ \E k \in DOMAIN writes : writes[k].op = "create_label" /\ writes[k].src # <<>>
    /\ \E k \in DOMAIN writes : writes[k].op = "create_label" /\ writes[k].src = <<>>

\* The destination writes of the current loop pass that have completed, in
\* order, followed by the one in progress.
Stream ==
    IF cur.op \in WriteOps /\ wpc = "running" THEN Append(writes, cur) ELSE writes

\* The source issue of the current loop pass is closed.
SourceClosed == gl_issue.iid # 0 /\ gl_issue.state = "closed"

\* C11: a close call is issued on a destination issue exactly when its
\* source issue is closed; it is then the write right after the issue's
\* create call, on the issue that call returned, and comes before every
\* comment of the issue; the issue of an open source issue is never closed.
C11_ClosedPreserved ==
    /\ \A k \in DOMAIN Stream :
          Stream[k].op = "close_issue"
              => /\ SourceClosed
                 /\ k = 2
                 /\ Stream[1].op = "create_issue"
                 /\ Stream[1].iid = gl_issue.iid
                 /\ Stream[1].number = Stream[k].number
    /\ (SourceClosed /\ pc \in {"move_comments", "comment_call"})
          => /\ Len(writes) >= 2
             /\ writes[2].op = "close_issue"
    /\ \A k \in DOMAIN Stream :
          (Stream[k].op = "create_comment" /\ SourceClosed)
              => k > 2 /\ Stream[2].op = "close_issue"

\* A closed source issue has been created, closed and given a comment, in
\* that order.
C11_Witness ==
    /\ SourceClosed
    /\ Len(writes) >= 3
    /\ writes[1].op = "create_issue"
    /\ writes[2].op = "close_issue"
    /\ writes[3].op = "create_comment"

IsComment(e) == e.op = "create_comment"

IsMovable(n) == ~n.confidential /\ ~n.system

\* The create-comment calls of the current loop pass, in the order issued.
Comments == SelectSeq(Stream, IsComment)

\* C12: the comments created on a destination issue are the notes of its
\* source issue that are neither confidential nor system-generated, in the
\* order of the source listing, each on the destination issue created from
\* the note's own source issue (and no two source issues share one).
C12_CommentsInOrder ==
    /\ pc \in {"move_comments", "comment_call"}
          => /\ Len(Comments) = Len(SelectSeq(notes, IsMovable))
             /\ \A k \in DOMAIN Comments :
                   /\ Comments[k].note = SelectSeq(notes, IsMovable)[k]
                   /\ Comments[k].iid = gl_issue.iid
                   /\ \E i \in Created :
                         /\ migrated[i].iid = gl_issue.iid
                         /\ migrated[i].number = Comments[k].number
    /\ \A i, j \in Created :
          migrated[i].number = migrated[j].number => i = j

\* The second created issue has got two comments, from its two notes.
C12_Witness ==
    /\ pc = "move_comments"
    /\ Cardinality(Created) = 2
    /\ Len(notes) = 2
    /\ Len(Comments) = 2
    /\ Comments[1].note.id = 1
    /\ Comments[2].note.id = 2
    /\ Comments[2].number = 2

\* The number of the destination issue created last.
LastNumber == Cardinality(Created)

\* C13: the destination writes form one sequential stream grouped by issue:
\* every write of a loop pass belongs to the
\* issue of that pass, which is the issue created last (nothing is written
\* to an earlier issue once a later one exists), a create call is the first
\* write of its pass and is attempted only when the calls of the issue
\* before have returned, and destination numbers grow with the source
\* sequence number.
C13_SequentialStream ==
    /\ \A k \in DOMAIN Stream :
          /\ Stream[k].op = "create_issue" <=> (InIssues /\ k = 1)
          /\ Stream[k].op \in {"create_issue", "create_comment"}
                => Stream[k].iid = gl_issue.iid
          /\ Stream[k].op \in {"close_issue", "create_comment"}
                => /\ Stream[k].number = LastNumber
                   /\ Stream[k].number = writes[1].number
                   /\ migrated[Len(migrated)].iid = gl_issue.iid
                   /\ migrated[Len(migrated)].number = LastNumber
    /\ (cur.op = "create_issue" /\ wpc = "running")
          => /\ writes = <<>>
             /\ \A i \in Created : migrated[i].iid < cur.iid
    /\ \A i, j \in Created :
          migrated[i].iid < migrated[j].iid => migrated[i].number < migrated[j].number
    /\ \A i \in Created : migrated[i].number = Cardinality({j \in Created : j <= i})

\* After a first issue with all its writes, the second issue has been
\* created, closed and given a comment.
C13_Witness ==
    /\ Cardinality(Created) = 2
    /\ Len(writes) = 3
    /\ writes[1].op = "create_issue" /\ writes[1].number = 2
    /\ writes[3].op = "create_comment" /\ writes[3].number = 2

\* C14: within one call of a retried destination write the backoff sleep
\* after the k-th failed attempt lasts 1200 + 300 * (k - 1) seconds, and
\* every call starts again at 1200 seconds.
C14_BackoffEscalation ==
    cur.op \in WriteOps =>
        /\ \A i \in DOMAIN trace :
              trace[i].ev = "backoff"
                  => /\ i > 1
                     /\ trace[i - 1].ev = "call_err"
                     /\ trace[i].n = 1200 + 300 * (trace[i - 1].n - 1)
                     /\ trace[i - 1].n = Backoffs(SubSeq(trace, 1, i))
        /\ \A i \in DOMAIN trace :
              trace[i].ev = "call_err"
                  => i < Len(trace) /\ trace[i + 1].ev = "backoff"
        /\ wpc = "running" => timeout = 1200 + 300 * (attempt - 1)

\* After an issue has been created, a create-comment call has slept 1200
\* and then 1500 seconds after its first two failed attempts.
C14_Witness ==
    /\ cur.op = "create_comment"
    /\ writes # <<>>
    /\ Backoffs(trace) = 2
    /\ trace[Len(trace)] = [ev |-> "backoff", n |-> 1500]
    /\ \E i \in DOMAIN trace : trace[i] = [ev |-> "backoff", n |-> 1200]

\* The create-label calls for the marker label.
MarkerCalls == {e \in IssuedOp("create_label") : e.src = <<>>}

\* C15: once every source label has been dealt with, move_labels creates
\* the marker label "gitlab" (color "FC6D27", description "For issues moved
\* from GitLab") exactly when the snapshot holds no label named exactly
\* "gitlab"; when move_labels is over the destination has such a label.
C15_MarkerLabel ==
    /\ MarkerCalls # {}
          => /\ MARKER \notin gh_labels
             /\ todo = {}
             /\ pc \in {"marker_call", "labels_end"}
    /\ \A e \in MarkerCalls : e.name = <<"g", "i", "t", "l", "a", "b">>
    /\ (cur.op = "create_label" /\ cur.src = <<>>)
          => /\ cur.color = <<"F", "C", "6", "D", "2", "7">>
             /\ cur.description = MARKER_DESCRIPTION
             /\ Len(cur.description) = 28
    /\ pc = "labels_end"
          => /\ (\E k \in DOMAIN writes : writes[k] \in MarkerCalls)
                    <=> MARKER \notin gh_labels
             /\ \/ MARKER \in gh_labels
                \/ \E k \in DOMAIN writes :
                      writes[k].op = "create_label" /\ writes[k].name = MARKER

\* The snapshot holds "GitLab" but not "gitlab", and the marker label has
\* been created.
C15_Witness ==
    /\ pc = "labels_end"
    /\ GITLAB \in gh_labels
    /\ MARKER \notin gh_labels
    /\ \E k \in DOMAIN writes : writes[k] \in MarkerCalls

\* s without its leading "#".
StripLeadingHash(s) == IF s # <<>> /\ s[1] = "#" THEN Tail(s) ELSE s

\* The first n characters of the description d, "" for None.
FirstChars(d, n) ==
    IF d = <<>> THEN <<>> ELSE [i \in 1..(IF Len(d[1]) < n THEN Len(d[1]) ELSE n) |-> d[1][i]]

\* C16: a label created from a source label gets the lower-cased source
\* name, the source color without its leading "#" and the first 100
\* characters of the source description ("" when there is none), so its
\* description is at most 100 characters long.
C16_LabelAttributes ==
    (cur.op = "create_label" /\ cur.src # <<>>)
        => /\ cur.src = gl_label.name
           /\ cur.name = Lower(gl_label.name)
           /\ cur.color = StripLeadingHash(gl_label.color)
           /\ "#" \notin Range(cur.color)
           /\ cur.description = FirstChars(gl_label.description, 100)
           /\ Len(cur.description) <= 100

\* A source label named in upper case with a description of 101 characters
\* has been created with the first 100 of them.
C16_Witness ==
    /\ cur.op = "create_label"
    /\ wpc = "returned"
    /\ cur.src = BUG
    /\ gl_label.description # <<>>
    /\ Len(gl_label.description[1]) = 101
    /\ Len(cur.description) = 100

\* C17: an error that leaves the migration of an issue ends the run: when
\* the wrapper has raised, or a source read has, the only step left is the
\* abort, nothing is written afterwards, and what has been written stays.
C17_AbortOnError ==
    /\ [](pc = "aborted" => wpc = "idle" /\ cur = NoCall)
    /\ [][(wpc = "raised" \/ pc = "aborted")
            => /\ pc' = "aborted"
               /\ wpc' = "idle"
               /\ cur' = NoCall
               /\ writes' = writes
               /\ migrated' = migrated]_vars

\* In bounded mode the run has stopped after the first of two issues was
\* created: its writes are there and the second issue was never reached.
C17_Witness ==
    /\ pc = "aborted"
    /\ ~forever
    /\ Cardinality(Created) = 1
    /\ writes # <<>>
    /\ writes[1].op = "create_issue"
    /\ idx = 1
    /\ Len(gl_issues) = 2

\* C18: for every configuration a call of the wrapper ends by returning the
\* result of a successful invocation of the operation or by raising the
\* error of a failed one; it never returns without having invoked the
\* operation, and with times = 1, forever = False the operation is invoked
\* at least once.
C18_NeverReturnsUninvoked ==
    (Terminated /\ cur.op = "func")
        => /\ Invocations(trace) >= 1
           /\ \/ /\ wpc = "returned"
                 /\ result.kind = "return"
                 /\ trace[Len(trace)].ev = "call_ok"
              \/ /\ wpc = "raised"
                 /\ result.kind = "raise"
                 /\ \E i \in DOMAIN trace : trace[i] = [ev |-> "call_err", n |-> result.attempt]

\* C19: within one run of move_labels the names passed to the create-label
\* calls, the one in progress included, are pairwise distinct: no name is
\* created twice.
C19_NoLabelCreatedTwice ==
    \A j, k \in DOMAIN Stream :
        (Stream[j].op = "create_label" /\ Stream[k].op = "create_label"
            /\ Stream[j].name = Stream[k].name)
            => j = k

\* The source issues dealt with that are not confidential.
Public == {i \in DOMAIN migrated : ~migrated[i].confidential}

LoopOver == pc = "issues_loop" /\ idx > Len(gl_issues)

\* C20: whatever number of attempts failed, every call has at most one
\* successful invocation, which ends it; a loop pass has one successful
\* create-issue call and one successful create-comment call for each of its
\* notes that is neither confidential nor system-generated; and when the
\* loop is over every listed issue has been dealt with once and the
\* destination issues are as many as the source issues that are not
\* confidential.
C20_ExactlyOnce ==
    /\ cur.op \in WriteOps
          => /\ CountEv(trace, {"call_ok"}) <= 1
             /\ \A i \in DOMAIN trace :
                   trace[i].ev = "call_ok" => i = Len(trace) /\ wpc = "returned"
             /\ wpc = "returned"
                   => /\ CountEv(trace, {"call_ok"}) = 1
                      /\ writes # <<>>
                      /\ writes[Len(writes)].op = cur.op
    /\ pc \in {"issue_made", "close_call", "move_comments", "comment_call"}
          => Cardinality({k \in DOMAIN writes : writes[k].op = "create_issue"}) = 1
    /\ pc = "move_comments"
          => \A n \in DOMAIN notes :
                Cardinality({k \in DOMAIN writes :
                                IsComment(writes[k]) /\ writes[k].note = notes[n]})
                    = IF IsMovable(notes[n]) THEN 1 ELSE 0
    /\ \A i, j \in DOMAIN migrated : migrated[i].iid = migrated[j].iid => i = j
    /\ Created = Public
    /\ LoopOver
          => /\ {migrated[i].iid : i \in DOMAIN migrated}
                    = {gl_listing[i].iid : i \in DOMAIN gl_listing}
             /\ Cardinality(Created) = Cardinality(Public)
             /\ Len(migrated) = Len(gl_listing)

\* The last comment of the last of two created issues has been created
\* at the third attempt, once.
C20_Witness ==
    /\ pc = "comment_call"
    /\ wpc = "returned"
    /\ result.attempt = 3
    /\ idx = 2
    /\ Len(gl_issues) = 2
    /\ Cardinality(Created) = 2
    /\ Len(notes) = MaxNotes
    /\ Len(Comments) = MaxNotes

====
